---------------------------- MODULE Spec2Model ----------------------------
(***************************************************************************)
(* Project-node resolution of src/snapshot_middleware/project.rs:          *)
(* snapshot_project loads a project file and resolves its tree of          *)
(* ProjectNodes into a tree of InstanceSnapshots through                   *)
(* snapshot_project_node, which merges, for every node, the explicit class *)
(* name, the snapshot of its $path and the class inferred from its         *)
(* position.                                                               *)
(*                                                                         *)
(* Option<T> is a sequence of length at most one: None is << >> and        *)
(* Some(x) is << x >>.  A filesystem path is the sequence of its           *)
(* components, an absolute one starting with "/".  anyhow::Result is a     *)
(* record tagged "Ok" or "Err".                                            *)
(***************************************************************************)
EXTENDS Naturals, Sequences, FiniteSets, TLC

VARIABLES
    project_file, \* the project file held by the Vfs: validity, name, tree
    call,       \* Option: the entry point invoked and its arguments
    result      \* Option: what the invoked entry point returned

vars == << project_file, call, result >>

-----------------------------------------------------------------------------
(* Option, Result *)

None == << >>

Some(x) == << x >>

IsSome(o) == o # << >>

Unwrap(o) == o[1]

Ok(v) == [kind |-> "Ok", value |-> v]

Err(e) == [kind |-> "Err", error |-> e]

IsErr(r) == r.kind = "Err"

-----------------------------------------------------------------------------
(* Paths *)

\* The project file of every run, and the folder that holds it.
ProjectFilePath == << "/", "foo", "default.project.json" >>

\* Path::is_relative
is_relative(path) == path = << >> \/ Head(path) # "/"

\* Path::parent
parent(path) == SubSeq(path, 1, Len(path) - 1)

\* Path::join: joining an absolute path replaces the base
join(base, path) == IF is_relative(path) THEN base \o path ELSE path

\* full_path of snapshot_project_node
full_path(project_folder, path) ==
    IF is_relative(path) THEN join(project_folder, path) ELSE path

-----------------------------------------------------------------------------
(* PathNode *)

Required(p) == [kind |-> "Required", path |-> p]

Optional(p) == [kind |-> "Optional", path |-> p]


-----------------------------------------------------------------------------
(* ProjectNode, InstanceSnapshot, InstanceMetadata, InstigatingSource *)

\* A map with no key (HashMap::new()).
EmptyMap == [k \in {} |-> None]

\* ProjectNode: children in iteration order, properties as a map of raw values.
ProjectNode(class_name, path, properties, children, ignore_unknown_instances) ==
    [class_name |-> class_name,
     path |-> path,
     properties |-> properties,
     children |-> children,
     ignore_unknown_instances |-> ignore_unknown_instances]

\* One entry of ProjectNode.children.
ChildEntry(child_name, child_project_node) ==
    [name |-> child_name, node |-> child_project_node]

\* InstigatingSource::Path, built by From<PathBuf>
SourcePath(path) == [tag |-> "Path", path |-> path]

\* InstigatingSource::ProjectNode
SourceProjectNode(project_path, instance_name, node, parent_class) ==
    [tag |-> "ProjectNode",
     path |-> project_path,
     name |-> instance_name,
     node |-> node,
     parent_class |-> parent_class]

\* InstanceMetadata::default()
DefaultMetadata ==
    [ignore_unknown_instances |-> FALSE,
     instigating_source |-> None,
     relevant_paths |-> << >>]

InstanceSnapshot(name, class_name, properties, children, metadata) ==
    [snapshot_id |-> None,
     name |-> name,
     class_name |-> class_name,
     properties |-> properties,
     children |-> children,
     metadata |-> metadata]

-----------------------------------------------------------------------------
(* The filesystem snapshotter, snapshot_from_vfs, over the files of the run *)

\* A typed property value (rbx_dom_weak Variant).
Variant(ty, v) == [ty |-> ty, v |-> v]

\* Metadata of a snapshot made from one file or directory.
FileMetadata(path, ignore, meta_name) ==
    [ignore_unknown_instances |-> ignore,
     instigating_source |-> Some(SourcePath(path)),
     relevant_paths |-> << path, parent(path) \o << meta_name >> >>]

\* /foo/src/<name>.lua
LuaModule(dir, name) ==
    InstanceSnapshot(name, "ModuleScript",
        [k \in {"Source"} |-> Variant("String", "return nil")], << >>,
        FileMetadata(dir \o << name >>, FALSE, name))

\* The files under the project folder: a directory whose init.meta.json sets
\* ignoreUnknownInstances, a text file, a file of a type Rojo cannot read,
\* and nothing at any other path.
snapshot_from_vfs(path) ==
    IF path = << "/", "foo", "src" >>
    THEN Ok(Some(InstanceSnapshot("src", "Folder", EmptyMap,
                << LuaModule(path, "a"), LuaModule(path, "b") >>,
                [ignore_unknown_instances |-> TRUE,
                 instigating_source |-> Some(SourcePath(path)),
                 relevant_paths |-> << path, path \o << "init.meta.json" >> >>])))
    ELSE IF path = << "/", "foo", "other.txt" >>
    THEN Ok(Some(InstanceSnapshot("other", "StringValue",
                [k \in {"Value"} |-> Variant("String", "Original")], << >>,
                FileMetadata(path, FALSE, "other.meta.json"))))
    ELSE IF path = << "/", "foo", "broken.model.json" >>
    THEN Err([type |-> "Snapshot", path |-> path])
    ELSE Ok(None)

-----------------------------------------------------------------------------
(* The property resolver, UnresolvedValue::resolve *)

\* A raw, ambiguous value of a project file.
Ambiguous(ty, v) == [ambiguous |-> ty, v |-> v]

\* The type of class_name.prop_name in the reflection database, if known.
find_descriptor(class_name, prop_name) ==
    IF prop_name = "Name" THEN Some("String")
    ELSE IF prop_name = "Parent" THEN Some("Ref")
    ELSE IF prop_name = "Value" /\ class_name = "StringValue" THEN Some("String")
    ELSE None

\* unresolved.resolve(class_name, key): fails on an unknown property and on
\* a raw value that is not of the property's type.
resolve(unresolved, class_name, prop_name) ==
    LET property == find_descriptor(class_name, prop_name)
    IN  IF ~IsSome(property)
        THEN Err([type |-> "UnknownProperty"])
        ELSE IF Unwrap(property) = unresolved.ambiguous
        THEN Ok(Variant(Unwrap(property), unresolved.v))
        ELSE Err([type |-> "InvalidValue"])

-----------------------------------------------------------------------------
(* infer_class_name *)

\* rbx_reflection_database: the classes tagged ClassTag::Service ...
ServiceClasses ==
    {"Workspace", "ReplicatedStorage", "ServerScriptService", "Lighting",
     "StarterPlayer", "StarterGui", "HttpService"}

\* ... and the other classes it knows.
OtherClasses ==
    {"Folder", "Model", "Part", "StringValue", "ModuleScript", "DataModel",
     "StarterPlayerScripts", "StarterCharacterScripts"}

\* classes.get(name)
classes_get(name) ==
    IF name \in ServiceClasses THEN Some([tags |-> {"Service"}])
    ELSE IF name \in OtherClasses THEN Some([tags |-> {}])
    ELSE None

\* A slip: any known class under DataModel is inferred, service or not.
infer_class_name_untagged(name, parent_class) ==
    IF ~IsSome(parent_class) THEN None
    ELSE IF Unwrap(parent_class) = "DataModel"
    THEN IF IsSome(classes_get(name)) THEN Some(name) ELSE None
    ELSE IF Unwrap(parent_class) = "StarterPlayer"
    THEN IF name = "StarterPlayerScripts" \/ name = "StarterCharacterScripts"
         THEN Some(name)
         ELSE None
    ELSE None

infer_class_name(name, parent_class) ==
    IF ~IsSome(parent_class) THEN None
    ELSE IF Unwrap(parent_class) = "DataModel"
    THEN LET descriptor == classes_get(name)
         IN  IF ~IsSome(descriptor) THEN None
             ELSE IF "Service" \in Unwrap(descriptor).tags THEN Some(name)
             ELSE None
    ELSE IF Unwrap(parent_class) = "StarterPlayer"
    THEN IF name = "StarterPlayerScripts" \/ name = "StarterCharacterScripts"
         THEN Some(name)
         ELSE None
    ELSE None

-----------------------------------------------------------------------------
(* The class-name match of snapshot_project_node *)

\* The outcome of the match: a class name, the early return Ok(None), or bail!.
Resolved(class_name) == [kind |-> "Class", class_name |-> class_name]

NoInstance == [kind |-> "NoInstance"]

ConflictError(instance_name, from_project, from_path) ==
    [type |-> "Conflict", name |-> instance_name,
     project |-> from_project, path |-> from_path]

UnresolvedPathError(path) == [type |-> "UnresolvedPath", path |-> path]

MissingInformationError(instance_name) ==
    [type |-> "MissingInformation", name |-> instance_name]

\* A slip in that arm: the path-derived class always wins.
path_or_inference_path_wins(from_path, from_inference) == Resolved(from_path)

\* (None, Some(path), Some(inference), _): a bare Folder gives way to inference.
path_or_inference(from_path, from_inference) ==
    IF from_path = "Folder" THEN Resolved(from_inference) ELSE Resolved(from_path)

\* (Some(project), Some(path), _, _): $className with a $path needs a Folder.
project_or_conflict(instance_name, from_project, from_path) ==
    IF from_path = "Folder"
    THEN Resolved(from_project)
    ELSE Err(ConflictError(instance_name, from_project, from_path))

\* A slip in that arm: an Optional path that yields nothing is an error.
optional_unresolved_is_error == Err([type |-> "UnresolvedPath", path |-> << >>])

\* (None, None, None, Some(PathNode::Optional(_))) => return Ok(None)
optional_unresolved == NoInstance

\* A slip in that arm: a Required path that yields nothing drops the node.
required_unresolved_is_absent(path) == NoInstance

\* (_, None, _, Some(PathNode::Required(path))) => bail!
required_unresolved(path) == Err(UnresolvedPathError(path))

\* (None, None, None, None) => bail!
missing_information(instance_name) == Err(MissingInformationError(instance_name))

\* The arms in the order of the source; the first arm that matches is taken.
class_name_match(instance_name, from_project, from_path, from_inference, node_path) ==
    IF IsSome(from_project) /\ ~IsSome(from_path) /\ ~IsSome(from_inference)
    THEN Resolved(Unwrap(from_project))
    ELSE IF ~IsSome(from_project) /\ IsSome(from_path) /\ ~IsSome(from_inference)
    THEN Resolved(Unwrap(from_path))
    ELSE IF ~IsSome(from_project) /\ ~IsSome(from_path) /\ IsSome(from_inference)
    THEN Resolved(Unwrap(from_inference))
    ELSE IF IsSome(from_project) /\ ~IsSome(from_path) /\ IsSome(from_inference)
    THEN Resolved(Unwrap(from_project))
    ELSE IF ~IsSome(from_project) /\ IsSome(from_path) /\ IsSome(from_inference)
    THEN path_or_inference(Unwrap(from_path), Unwrap(from_inference))
    ELSE IF IsSome(from_project) /\ IsSome(from_path)
    THEN project_or_conflict(instance_name, Unwrap(from_project), Unwrap(from_path))
    ELSE IF ~IsSome(from_project) /\ ~IsSome(from_path) /\ ~IsSome(from_inference)
            /\ IsSome(node_path) /\ Unwrap(node_path).kind = "Optional"
    THEN optional_unresolved
    ELSE IF ~IsSome(from_path)
            /\ IsSome(node_path) /\ Unwrap(node_path).kind = "Required"
    THEN required_unresolved(Unwrap(node_path).path)
    ELSE missing_information(instance_name)

-----------------------------------------------------------------------------
(* The trace of one resolution: what a call did, in order.  `at` is the    *)
(* chain of child names from the node of the outermost call down to the    *)
(* node the event belongs to.                                              *)

Event(op, arg) == [op |-> op, at |-> << >>, arg |-> arg]

\* The events of the call for child `child_name`, seen from its parent.
Under(child_name, log) ==
    [i \in 1..Len(log) |-> [log[i] EXCEPT !.at = << child_name >> \o @]]

\* A call's return value with the events up to its return.
Return(ret, log) ==
    [ret |-> ret,
     log |-> Append(log, Event("return",
                IF IsErr(ret) THEN "Err"
                ELSE IF IsSome(ret.value) THEN "Some" ELSE "None"))]

-----------------------------------------------------------------------------
(* snapshot_project_node, step by step *)

\* A slip: an inherited value is kept when the key is declared too.
insert_if_vacant(properties, key, value) ==
    [k \in (DOMAIN properties) \cup {key} |->
        IF k \in DOMAIN properties THEN properties[k] ELSE value]

\* properties.insert(key, value)
insert(properties, key, value) ==
    [k \in (DOMAIN properties) \cup {key} |->
        IF k = key THEN value ELSE properties[k]]

\* class_name_from_path = Some(snapshot.class_name)
class_name_of_path(snapshot) ==
    IF IsSome(snapshot) THEN Some(Unwrap(snapshot).class_name) ELSE None

\* Properties from the snapshot are pulled in unchanged.
seed_properties(snapshot) ==
    IF IsSome(snapshot) THEN Unwrap(snapshot).properties ELSE EmptyMap

\* The snapshot's children come first.
seed_children(snapshot) ==
    IF IsSome(snapshot) THEN Unwrap(snapshot).children ELSE << >>

\* Take the snapshot's metadata as-is.
seed_metadata(snapshot) ==
    IF IsSome(snapshot) THEN Unwrap(snapshot).metadata ELSE DefaultMetadata

\* A slip: a declared child is put before the children already there.
push_child_first(children, found) ==
    IF IsSome(found) THEN << Unwrap(found) >> \o children ELSE children

\* if let Some(child) = snapshot_project_node(..)? { children.push(child) }
push_child(children, found) ==
    IF IsSome(found) THEN Append(children, Unwrap(found)) ELSE children

\* The class name a declared child is resolved under: Some(&class_name).
child_parent_class(class_name, from_project, from_path) == Some(class_name)

\* The order in which node.properties is iterated.
PropertyOrder == << "Name", "Parent", "Value" >>

property_keys(properties) ==
    SelectSeq(PropertyOrder, LAMBDA k : k \in DOMAIN properties)

\* The class name a declared property is resolved against: &class_name.
property_class(class_name, from_project, from_path) == class_name

\* One turn of the loop over node.properties: resolve, then skip "Name" and
\* "Parent" with a warning, else insert.
property_step(properties, key, unresolved, class_name, project_path) ==
    LET value == resolve(unresolved, class_name, key)
    IN  IF IsErr(value)
        THEN [ret |-> Err([type |-> "UnresolvableProperty", path |-> project_path]),
              log |-> << Event("resolve", key) >>]
        ELSE IF key = "Name" \/ key = "Parent"
        THEN [ret |-> Ok(properties),
              log |-> << Event("resolve", key), Event("warn", key) >>]
        ELSE [ret |-> Ok(insert(properties, key, value.value)),
              log |-> << Event("resolve", key) >>]

RECURSIVE node_properties_loop(_, _, _, _, _)
\* for (key, unresolved) in &node.properties
node_properties_loop(keys, node_properties, class_name, project_path, properties) ==
    IF keys = << >> THEN [ret |-> Ok(properties), log |-> << >>]
    ELSE LET step == property_step(properties, Head(keys),
                        node_properties[Head(keys)], class_name, project_path)
         IN  IF IsErr(step.ret) THEN step
             ELSE LET rest == node_properties_loop(Tail(keys), node_properties,
                                class_name, project_path, step.ret.value)
                  IN  [ret |-> rest.ret, log |-> step.log \o rest.log]

\* A slip: without $ignoreUnknownInstances the flag is true, $path or not.
apply_ignore_unknown_instances_always(node, metadata) ==
    IF IsSome(node.ignore_unknown_instances)
    THEN [metadata EXCEPT !.ignore_unknown_instances =
                            Unwrap(node.ignore_unknown_instances)]
    ELSE [metadata EXCEPT !.ignore_unknown_instances = TRUE]

\* $ignoreUnknownInstances overwrites; without it and without $path, true.
apply_ignore_unknown_instances(node, metadata) ==
    IF IsSome(node.ignore_unknown_instances)
    THEN [metadata EXCEPT !.ignore_unknown_instances =
                            Unwrap(node.ignore_unknown_instances)]
    ELSE IF ~IsSome(node.path)
    THEN [metadata EXCEPT !.ignore_unknown_instances = TRUE]
    ELSE metadata

\* metadata.instigating_source = Some(InstigatingSource::ProjectNode(..))
stamp_instigating_source(metadata, project_path, instance_name, node, parent_class) ==
    [metadata EXCEPT !.instigating_source =
        Some(SourceProjectNode(project_path, instance_name, node, parent_class))]

\* A slip: a child that fails is left out like a child that is absent.
child_outcome_caught(ret) == IF IsErr(ret) THEN Ok(None) ELSE ret

\* The `?` on the recursive call: an error of a child is the error of the loop.
child_outcome(ret) == ret

RECURSIVE snapshot_project_node(_, _, _, _)
RECURSIVE node_children_loop(_, _, _, _, _, _)

\* for (child_name, child_project_node) in &node.children
node_children_loop(project_path, entries, class_name, from_project, from_path, children) ==
    IF entries = << >> THEN [ret |-> Ok(children), log |-> << >>]
    ELSE LET entry == Head(entries)
             called == snapshot_project_node(project_path, entry.name, entry.node,
                          child_parent_class(class_name, from_project, from_path))
             child == child_outcome(called.ret)
             child_log == Under(entry.name, called.log)
         IN  IF IsErr(child) THEN [ret |-> child, log |-> child_log]
             ELSE LET rest == node_children_loop(project_path, Tail(entries),
                                class_name, from_project, from_path,
                                push_child(children, child.value))
                  IN  [ret |-> rest.ret, log |-> child_log \o rest.log]

\* A slip: the declared properties are resolved before the declared children.
properties_then_children(kids, props) ==
    IF IsErr(props.ret) THEN [ret |-> props.ret, log |-> props.log]
    ELSE IF IsErr(kids.ret)
    THEN [ret |-> kids.ret, log |-> props.log \o kids.log]
    ELSE [ret |-> Ok([children |-> kids.ret.value,
                      properties |-> props.ret.value]),
          log |-> props.log \o kids.log]

\* The loop over node.children, then the loop over node.properties; the `?`
\* in the first returns before the second is entered.
children_then_properties(kids, props) ==
    IF IsErr(kids.ret) THEN [ret |-> kids.ret, log |-> kids.log]
    ELSE IF IsErr(props.ret)
    THEN [ret |-> props.ret, log |-> kids.log \o props.log]
    ELSE [ret |-> Ok([children |-> kids.ret.value,
                      properties |-> props.ret.value]),
          log |-> kids.log \o props.log]

snapshot_project_node(project_path, instance_name, node, parent_class) ==
    LET project_folder == parent(project_path)
        class_name_from_project == node.class_name
        from_vfs == IF IsSome(node.path)
                    THEN snapshot_from_vfs(
                            full_path(project_folder, Unwrap(node.path).path))
                    ELSE Ok(None)
        entered == << Event("enter", parent_class) >> \o
                   (IF IsSome(node.path)
                    THEN << Event("snapshot_from_vfs",
                              full_path(project_folder, Unwrap(node.path).path)) >>
                    ELSE << >>)
    IN  IF IsErr(from_vfs) THEN Return(from_vfs, entered)
        ELSE
        LET snapshot == from_vfs.value
            class_name_from_path == class_name_of_path(snapshot)
            class_name_from_inference == infer_class_name(instance_name, parent_class)
            matched == class_name_match(instance_name, class_name_from_project,
                          class_name_from_path, class_name_from_inference, node.path)
            matching == entered \o
                << Event("class_name",
                      [from_project |-> class_name_from_project,
                       from_path |-> class_name_from_path,
                       from_inference |-> class_name_from_inference,
                       matched |-> matched]) >>
        IN  IF matched.kind = "NoInstance" THEN Return(Ok(None), matching)
            ELSE IF matched.kind = "Err" THEN Return(matched, matching)
            ELSE
            LET class_name == matched.class_name
                kids == node_children_loop(project_path, node.children, class_name,
                            class_name_from_project, class_name_from_path,
                            seed_children(snapshot))
                props == node_properties_loop(property_keys(node.properties),
                            node.properties,
                            property_class(class_name, class_name_from_project,
                                           class_name_from_path),
                            project_path, seed_properties(snapshot))
                loops == children_then_properties(kids, props)
            IN  IF IsErr(loops.ret)
                THEN Return(loops.ret, matching \o loops.log)
                ELSE Return(
                    Ok(Some(InstanceSnapshot(instance_name, class_name,
                        loops.ret.value.properties, loops.ret.value.children,
                        stamp_instigating_source(
                            apply_ignore_unknown_instances(node, seed_metadata(snapshot)),
                            project_path, instance_name, node, parent_class)))),
                    matching \o loops.log)

-----------------------------------------------------------------------------
(* snapshot_project *)

\* A slip: the root keeps the source the recursion gave it.
mark_root_path_only(snapshot, path) ==
    [snapshot EXCEPT !.metadata.relevant_paths = Append(@, path)]

\* The root of the project file is the root of the tree: its source is the
\* project file, which is also one of its relevant paths.
mark_root(snapshot, path) ==
    [snapshot EXCEPT !.metadata.instigating_source = Some(SourcePath(path)),
                     !.metadata.relevant_paths = Append(@, path)]

snapshot_project(path, file) ==
    IF ~file.valid
    THEN [ret |-> Err([type |-> "Load", path |-> path]), log |-> << >>]
    ELSE LET called == snapshot_project_node(path, file.name, file.tree, None)
         IN  IF IsErr(called.ret) THEN called
             ELSE IF IsSome(called.ret.value)
             THEN [ret |-> Ok(Some(mark_root(Unwrap(called.ret.value), path))),
                   log |-> called.log]
             ELSE [ret |-> Ok(None), log |-> called.log]

-----------------------------------------------------------------------------
(* The project files of the runs *)

\* The most children a project node declares.
MaxChildren == 2

\* The most properties a project node declares.
MaxProperties == 2

\* Instance names: a service, a class that is no service, no class at all.
Names == {"StarterPlayer", "StarterPlayerScripts", "Child"}

\* The paths a $path names, relative to the project folder.
Paths == { << "src" >>, << "other.txt" >>, << "missing.txt" >>,
           << "broken.model.json" >> }

\* $path
PathNodes ==
    {None} \cup {Some(Required(p)) : p \in Paths} \cup {Some(Optional(p)) : p \in Paths}

\* $properties: the keys and the raw values
Keys == {"Name", "Parent", "Value"}

RawValues == {Ambiguous("String", "Changed"), Ambiguous("Number", "5")}

PropertyMaps ==
    UNION {[keys -> RawValues] :
            keys \in {ks \in SUBSET Keys : Cardinality(ks) <= MaxProperties}}

\* Nodes that declare no child, no property and no $ignoreUnknownInstances.
Leaves ==
    {ProjectNode(c, p, EmptyMap, << >>, None) :
        c \in {None, Some("DataModel")}, p \in PathNodes}

\* Nodes that declare no child.
RichLeaves ==
    {ProjectNode(c, p, ps, << >>, i) :
        c \in {None, Some("DataModel"), Some("StringValue")}, p \in PathNodes,
        ps \in PropertyMaps, i \in {None, Some(TRUE), Some(FALSE)}}

\* Sequences of at most n entries, each naming a different child.
RECURSIVE Entries(_, _, _)
Entries(names, nodes, n) ==
    IF n = 0 THEN {<< >>}
    ELSE {<< >>} \cup
         UNION {{<< ChildEntry(name, node) >> \o rest :
                    node \in nodes, rest \in Entries(names \ {name}, nodes, n - 1)} :
                name \in names}

\* A project file that parses: the name and the tree of the project.
File(name, tree) == [valid |-> TRUE, name |-> name, tree |-> tree]

\* A project file that does not parse.
InvalidFile ==
    [valid |-> FALSE, name |-> "Child",
     tree |-> ProjectNode(None, None, EmptyMap, << >>, None)]

\* The names of the projects.
ProjectNames == {"StarterPlayer", "Child"}

\* parent_class of a direct call of snapshot_project_node
ParentClasses == {Some("DataModel"), Some("StarterPlayer")}

-----------------------------------------------------------------------------
(* The specification *)

\* Project files of two levels: any children under any node, all of them
\* plain; one node with every declaration, alone, above or below a plain
\* node; and a file that does not parse.
InitFile ==
    \/ \E name \in ProjectNames, node \in Leaves,
          entries \in Entries(Names, Leaves, MaxChildren) :
            project_file = File(name, [node EXCEPT !.children = entries])
    \/ \E name \in ProjectNames, node \in RichLeaves :
            project_file = File(name, node)
    \/ \E name \in ProjectNames, node \in RichLeaves,
          child_name \in Names, child \in Leaves :
            project_file =
                File(name, [node EXCEPT !.children = << ChildEntry(child_name, child) >>])
    \/ \E name \in ProjectNames, node \in Leaves,
          child_name \in Names, child \in RichLeaves :
            project_file =
                File(name, [node EXCEPT !.children = << ChildEntry(child_name, child) >>])
    \/ project_file = InvalidFile

Init ==
    /\ InitFile
    /\ call = None
    /\ result = None

\* snapshot_project(context, vfs, path)
SnapshotProject ==
    /\ call = None
    /\ call' = Some([fn |-> "snapshot_project", parent_class |-> None])
    /\ result' = Some(snapshot_project(ProjectFilePath, project_file))
    /\ UNCHANGED project_file

\* snapshot_project_node(context, project_path, instance_name, node, vfs, parent_class)
SnapshotProjectNode ==
    /\ call = None
    /\ project_file.valid
    /\ \E parent_class \in ParentClasses :
        /\ call' = Some([fn |-> "snapshot_project_node", parent_class |-> parent_class])
        /\ result' = Some(snapshot_project_node(ProjectFilePath, project_file.name,
                            project_file.tree, parent_class))
    /\ UNCHANGED project_file

\* The inputs of the class-name match taken alone.
MatchClassNames == {None, Some("Folder"), Some("StringValue"), Some("DataModel")}

MatchInferences == {None, Some("StarterPlayer"), Some("StarterPlayerScripts")}

MatchPathNodes ==
    {None, Some(Required(<< "missing.txt" >>)), Some(Optional(<< "missing.txt" >>))}

\* The class-name match of snapshot_project_node on given candidates.
ClassNameMatch ==
    /\ call = None
    /\ \E from_project \in MatchClassNames, from_path \in MatchClassNames,
          from_inference \in MatchInferences, node_path \in MatchPathNodes :
        \* class_name_from_path is set from the snapshot of node.path only
        /\ IsSome(from_path) => IsSome(node_path)
        /\ call' = Some([fn |-> "class_name_match",
                         from_project |-> from_project,
                         from_path |-> from_path,
                         from_inference |-> from_inference,
                         node_path |-> node_path])
        /\ result' = Some(class_name_match("Child", from_project, from_path,
                                           from_inference, node_path))
    /\ UNCHANGED project_file

\* The inputs of infer_class_name taken alone.
InferNames == ServiceClasses \cup OtherClasses \cup {"Child", "Game"}

InferParentClasses ==
    {None} \cup {Some(c) : c \in {"DataModel", "StarterPlayer", "Folder",
                                  "Workspace", "Model", "StarterPlayerScripts"}}

\* infer_class_name(name, parent_class)
InferClassName ==
    /\ call = None
    /\ \E name \in InferNames, parent_class \in InferParentClasses :
        /\ call' = Some([fn |-> "infer_class_name",
                         name |-> name, parent_class |-> parent_class])
        /\ result' = Some(infer_class_name(name, parent_class))
    /\ UNCHANGED project_file

\* No project file is read.
InitNoFile ==
    /\ project_file = InvalidFile
    /\ call = None
    /\ result = None

\* Project files of one node and at most one child, all plain.
InitSmallFile ==
    /\ \E name \in ProjectNames, node \in Leaves,
          entries \in Entries(Names, Leaves, 1) :
            project_file = File(name, [node EXCEPT !.children = entries])
    /\ call = None
    /\ result = None

Next == SnapshotProject \/ SnapshotProjectNode

Spec == Init /\ [][Next]_vars

\* The class-name match alone.
SpecClassName == InitNoFile /\ [][ClassNameMatch]_vars

NextInfer == InferClassName \/ SnapshotProject \/ SnapshotProjectNode

\* infer_class_name alone, and inside the resolution of small projects.
SpecInfer == InitSmallFile /\ [][NextInfer]_vars

-----------------------------------------------------------------------------
(* What a finished call shows *)

Finished == IsSome(call) /\ IsSome(result)

Fn == Unwrap(call).fn

Args == Unwrap(call)

-----------------------------------------------------------------------------
(* C1: the class-name table *)

\* The candidates that are present.
Candidates(from_project, from_path, from_inference) ==
    SelectSeq(<< from_project, from_path, from_inference >>, IsSome)

\* The table of the class-name resolver, row by row.
TableResult(instance_name, from_project, from_path, from_inference, node_path) ==
    LET present == Candidates(from_project, from_path, from_inference)
    IN  IF Len(present) = 1
        THEN Resolved(Unwrap(present[1]))
        ELSE IF IsSome(from_project) /\ ~IsSome(from_path) /\ IsSome(from_inference)
        THEN Resolved(Unwrap(from_project))
        ELSE IF ~IsSome(from_project) /\ IsSome(from_path) /\ IsSome(from_inference)
        THEN Resolved(IF from_path = Some("Folder")
                      THEN Unwrap(from_inference) ELSE Unwrap(from_path))
        ELSE IF IsSome(from_project) /\ IsSome(from_path)
        THEN IF from_path = Some("Folder")
             THEN Resolved(Unwrap(from_project))
             ELSE Err([type |-> "Conflict", name |-> instance_name,
                       project |-> Unwrap(from_project), path |-> Unwrap(from_path)])
        ELSE IF node_path = None
        THEN Err([type |-> "MissingInformation", name |-> instance_name])
        ELSE IF Unwrap(node_path).kind = "Optional"
        THEN [kind |-> "NoInstance"]
        ELSE Err([type |-> "UnresolvedPath", path |-> Unwrap(node_path).path])

-----------------------------------------------------------------------------
(* What the resolution of a project shows: the declared nodes, the calls   *)
(* the trace records for them, and their snapshots in the returned tree.   *)

\* A call of snapshot_project or snapshot_project_node on a project that
\* parses has returned.
Resolving ==
    /\ Finished
    /\ Fn \in {"snapshot_project", "snapshot_project_node"}
    /\ project_file.valid

Ret == Unwrap(result).ret

Log == Unwrap(result).log

Range(seq) == {seq[i] : i \in DOMAIN seq}

\* The declared node reached from `node` by the chain of child names `at`.
RECURSIVE NodeAt(_, _)
NodeAt(node, at) ==
    IF at = << >> THEN node
    ELSE NodeAt((CHOOSE e \in Range(node.children) : e.name = Head(at)).node, Tail(at))

DeclaredNode(at) == NodeAt(project_file.tree, at)

NameOf(at) == IF at = << >> THEN project_file.name ELSE at[Len(at)]

ParentOf(at) == SubSeq(at, 1, Len(at) - 1)

\* The chains of all declared nodes below and including `node`.
RECURSIVE ChainsUnder(_)
ChainsUnder(node) ==
    {<< >>} \cup UNION {{<< e.name >> \o c : c \in ChainsUnder(e.node)} :
                          e \in Range(node.children)}

Declared == ChainsUnder(project_file.tree)

\* The events of the call for the node at `at`.
HasEvent(at, op) == \E i \in DOMAIN Log : Log[i].at = at /\ Log[i].op = op

EventOf(at, op) == Log[CHOOSE i \in DOMAIN Log : Log[i].at = at /\ Log[i].op = op].arg

\* The nodes snapshot_project_node was called for.
Visited == {at \in Declared : HasEvent(at, "enter")}

\* What the call for a node returned: "Some", "None" or "Err"; "Uncalled" for
\* a node snapshot_project_node was not called for.
Returned(at) ==
    IF HasEvent(at, "return") THEN EventOf(at, "return") ELSE "Uncalled"

\* The candidates and the outcome of the class-name match of a node.
Matched(at) == HasEvent(at, "class_name")

Match(at) == EventOf(at, "class_name")

\* The parent class the call for a node was given.
GivenParentClass(at) == EventOf(at, "enter")

\* What the filesystem snapshotter yields for the $path of a declared node.
PathResult(at) ==
    LET node == DeclaredNode(at)
    IN  IF IsSome(node.path)
        THEN snapshot_from_vfs(full_path(parent(ProjectFilePath), Unwrap(node.path).path))
        ELSE Ok(None)

\* The $path of the node is of the given kind and yields no snapshot.
Unresolved(at, kind) ==
    /\ IsSome(DeclaredNode(at).path)
    /\ Unwrap(DeclaredNode(at).path).kind = kind
    /\ PathResult(at) = Ok(None)

\* The call returned a tree.
Succeeded == Resolving /\ Ret.kind = "Ok" /\ IsSome(Ret.value)

Root == Unwrap(Ret.value)

\* A snapshot made for a declared node of the given name.
IsSnapshotOf(snapshot, name) ==
    /\ snapshot.name = name
    /\ IsSome(snapshot.metadata.instigating_source)
    /\ Unwrap(snapshot.metadata.instigating_source).tag = "ProjectNode"

DeclaredChildren(snapshot, name) ==
    {i \in DOMAIN snapshot.children : IsSnapshotOf(snapshot.children[i], name)}

\* The returned tree holds a snapshot for the declared node at `at`.
RECURSIVE HasSnapshot(_, _)
HasSnapshot(snapshot, at) ==
    \/ at = << >>
    \/ \E i \in DeclaredChildren(snapshot, Head(at)) :
            HasSnapshot(snapshot.children[i], Tail(at))

RECURSIVE SnapshotAt(_, _)
SnapshotAt(snapshot, at) ==
    IF at = << >> THEN snapshot
    ELSE SnapshotAt(
            snapshot.children[CHOOSE i \in DeclaredChildren(snapshot, Head(at)) :
                                HasSnapshot(snapshot.children[i], Tail(at))],
            Tail(at))

Present(at) == Succeeded /\ HasSnapshot(Root, at)

SnapshotOf(at) == SnapshotAt(Root, at)

-----------------------------------------------------------------------------
(* C2, C3: a $path that yields no snapshot *)

\* The node at `at` has neither an explicit nor an inferred class.
NoOtherCandidate(at) ==
    /\ DeclaredNode(at).class_name = None
    /\ Match(at).from_inference = None

\* The returned tree holds no snapshot of the node under its parent.
MissingFromParent(at) ==
    (at # << >> /\ Present(ParentOf(at))) =>
        DeclaredChildren(SnapshotOf(ParentOf(at)), NameOf(at)) = {}

\* C2 as stated: a node whose Optional $path yields no snapshot returns
\* absence and is missing from its parent's children, whatever its explicit
\* and inferred class.
C2_AbsentForEveryClass ==
    Resolving =>
        \A at \in Visited :
            Unresolved(at, "Optional") =>
                Returned(at) = "None" /\ MissingFromParent(at)

\* C2 amended: a node whose Optional $path yields no snapshot, and which has
\* neither an explicit class name nor an inferred class, returns absence and
\* is missing from its parent's children.
C2_AbsentWithoutCandidate ==
    Resolving =>
        \A at \in Visited :
            (Unresolved(at, "Optional") /\ NoOtherCandidate(at)) =>
                Returned(at) = "None" /\ MissingFromParent(at)

\* A declared child with an unresolved Optional $path and no class is left
\* out of the tree its parent returns.
C2_Witness ==
    /\ Succeeded
    /\ \E at \in Visited :
        /\ at # << >>
        /\ Unresolved(at, "Optional") /\ NoOtherCandidate(at)
        /\ Returned(at) = "None"
        /\ Present(ParentOf(at))

\* C3 as stated: a node whose Required $path yields no snapshot makes
\* snapshot_project_node fail, whatever its explicit and inferred class; it
\* returns neither a snapshot nor absence.
C3_ErrorForEveryClass ==
    Resolving =>
        \A at \in Visited :
            Unresolved(at, "Required") => Returned(at) = "Err"

\* C3 amended: a node whose Required $path yields no snapshot, and which has
\* neither an explicit class name nor an inferred class, makes
\* snapshot_project_node fail with the UnresolvedPath error, which is the
\* error of the whole call.
C3_ErrorWithoutCandidate ==
    Resolving =>
        \A at \in Visited :
            (Unresolved(at, "Required") /\ NoOtherCandidate(at)) =>
                /\ Returned(at) = "Err"
                /\ Ret = Err([type |-> "UnresolvedPath",
                              path |-> Unwrap(DeclaredNode(at).path).path])

\* A declared child with an unresolved Required $path and no class fails the
\* call.
C3_Witness ==
    /\ Resolving
    /\ \E at \in Visited :
        /\ at # << >>
        /\ Unresolved(at, "Required") /\ NoOtherCandidate(at)
        /\ Ret.kind = "Err" /\ Ret.error.type = "UnresolvedPath"

-----------------------------------------------------------------------------
(* C4, C5: declared properties *)

ReservedKeys == {"Name", "Parent"}

\* The declared node at `at` resolved to a class and none of its declared
\* children failed: the loop over its declared properties was run.
ReachedProperties(at) ==
    /\ Matched(at)
    /\ Match(at).matched.kind = "Class"
    /\ \A e \in Range(DeclaredNode(at).children) :
            Returned(at \o << e.name >>) \in {"Some", "None"}

\* The properties of the snapshot of the $path of the node, if any.
InheritedProperties(at) ==
    IF IsSome(PathResult(at).value)
    THEN Unwrap(PathResult(at).value).properties
    ELSE EmptyMap

\* C4 as stated: a declared "Name" or "Parent", whatever its raw value,
\* never makes the resolution of the node fail and never changes the output;
\* it is dropped with a warning, is not inserted into the property map, and
\* the snapshot keeps the instance name.
C4_ReservedKeysNeverFail ==
    Resolving =>
        \A at \in Visited :
            LET node == DeclaredNode(at)
                class_name == Match(at).matched.class_name
                reserved == (DOMAIN node.properties) \cap ReservedKeys
                others == (DOMAIN node.properties) \ ReservedKeys
            IN  (/\ ReachedProperties(at)
                 /\ reserved # {}
                 /\ \A k \in others : ~IsErr(resolve(node.properties[k], class_name, k)))
                =>
                /\ Returned(at) = "Some"
                /\ \A k \in reserved :
                        \E i \in DOMAIN Log :
                            Log[i] = [op |-> "warn", at |-> at, arg |-> k]
                /\ Present(at) =>
                    /\ SnapshotOf(at).name = NameOf(at)
                    /\ \A k \in reserved :
                        k \in DOMAIN SnapshotOf(at).properties =>
                            /\ k \in DOMAIN InheritedProperties(at)
                            /\ SnapshotOf(at).properties[k] = InheritedProperties(at)[k]

\* C5: in the snapshot of a resolved node, every declared key other than
\* "Name" and "Parent" maps to the declared value resolved against the final
\* class name of the node, also when the snapshot of its $path has the key;
\* every key of that snapshot alone keeps its value; there is no other key.
C5_DeclaredPropertiesOverride ==
    Resolving =>
        \A at \in Visited :
            Present(at) =>
                LET node == DeclaredNode(at)
                    snapshot == SnapshotOf(at)
                    inherited == InheritedProperties(at)
                    declared == (DOMAIN node.properties) \ ReservedKeys
                IN  /\ DOMAIN snapshot.properties = (DOMAIN inherited) \cup declared
                    /\ \A k \in declared :
                        snapshot.properties[k] =
                            resolve(node.properties[k], snapshot.class_name, k).value
                    /\ \A k \in (DOMAIN inherited) \ declared :
                        snapshot.properties[k] = inherited[k]

\* A declared Value replaces the Value of the snapshot of the $path.
C5_Witness ==
    /\ Succeeded
    /\ \E at \in Visited :
        /\ Present(at)
        /\ "Value" \in DOMAIN InheritedProperties(at)
        /\ InheritedProperties(at)["Value"] = Variant("String", "Original")
        /\ "Value" \in DOMAIN DeclaredNode(at).properties
        /\ SnapshotOf(at).properties["Value"] = Variant("String", "Changed")

-----------------------------------------------------------------------------
(* C6: children *)

InheritedChildren(at) ==
    IF IsSome(PathResult(at).value)
    THEN Unwrap(PathResult(at).value).children
    ELSE << >>

\* The declared children of the node whose call returned a snapshot.
ResolvedEntries(at) ==
    SelectSeq(DeclaredNode(at).children,
              LAMBDA e : Returned(at \o << e.name >>) = "Some")

\* C6: the children of the snapshot of a resolved node are the children of
\* the snapshot of its $path, in their order, followed by the snapshots of
\* its declared children in declaration order, those that resolved to
\* absence left out and no other.
C6_ChildrenOrder ==
    Resolving =>
        \A at \in Visited :
            Present(at) =>
                LET snapshot == SnapshotOf(at)
                    inherited == InheritedChildren(at)
                    entries == ResolvedEntries(at)
                IN  /\ \A e \in Range(DeclaredNode(at).children) :
                        /\ at \o << e.name >> \in Visited
                        /\ Returned(at \o << e.name >>) \in {"Some", "None"}
                    /\ Len(snapshot.children) = Len(inherited) + Len(entries)
                    /\ SubSeq(snapshot.children, 1, Len(inherited)) = inherited
                    /\ \A i \in DOMAIN entries :
                        LET child == snapshot.children[Len(inherited) + i]
                        IN  /\ child.name = entries[i].name
                            /\ child.metadata.instigating_source =
                                Some(SourceProjectNode(ProjectFilePath, entries[i].name,
                                        entries[i].node, Some(snapshot.class_name)))
                            /\ child = SnapshotOf(at \o << entries[i].name >>)

\* Two inherited children, then the one declared child of two that resolved.
C6_Witness ==
    /\ Succeeded
    /\ \E at \in Visited :
        /\ Present(at)
        /\ Len(InheritedChildren(at)) = 2
        /\ Len(DeclaredNode(at).children) = 2
        /\ Returned(at \o << DeclaredNode(at).children[1].name >>) = "None"
        /\ Returned(at \o << DeclaredNode(at).children[2].name >>) = "Some"
        /\ Len(SnapshotOf(at).children) = 3

-----------------------------------------------------------------------------
(* C7: ignoreUnknownInstances *)

\* C7: the flag of a resolved node is its $ignoreUnknownInstances when it
\* sets one; else true when it has no $path; else the flag of the snapshot of
\* its $path, or false when the $path yielded no snapshot.
C7_IgnoreUnknownInstances ==
    Resolving =>
        \A at \in Visited :
            Present(at) =>
                LET node == DeclaredNode(at)
                IN  SnapshotOf(at).metadata.ignore_unknown_instances =
                        IF IsSome(node.ignore_unknown_instances)
                        THEN Unwrap(node.ignore_unknown_instances)
                        ELSE IF node.path = None THEN TRUE
                        ELSE IF IsSome(PathResult(at).value)
                        THEN Unwrap(PathResult(at).value).metadata.ignore_unknown_instances
                        ELSE FALSE

\* A node with a $path that yields no snapshot and no flag of its own.
C7_Witness ==
    /\ Succeeded
    /\ \E at \in Visited :
        /\ Present(at)
        /\ DeclaredNode(at).ignore_unknown_instances = None
        /\ IsSome(DeclaredNode(at).path)
        /\ PathResult(at) = Ok(None)
        /\ SnapshotOf(at).metadata.ignore_unknown_instances = FALSE

-----------------------------------------------------------------------------
(* C8: instigating sources *)

\* The relevant paths of the snapshot of the $path of the node, if any.
InheritedRelevantPaths(at) ==
    IF IsSome(PathResult(at).value)
    THEN Unwrap(PathResult(at).value).metadata.relevant_paths
    ELSE << >>

\* Every node whose call returned a snapshot has that snapshot in the tree.
AllPresent == \A at \in Visited : Returned(at) = "Some" => Present(at)

\* C8: in a tree returned by snapshot_project every snapshot has one
\* instigating source.  That of the root is the path of the project file,
\* whatever the recursion and the snapshot of the $path gave it, and the
\* project file is appended to the relevant paths of the root alone.  That of
\* every other snapshot made for a declared node is the ProjectNode source of
\* the project file, the name of the node, the node itself and the resolved
\* class name of its parent, replacing the source of the snapshot of its
\* $path.
C8_InstigatingSources ==
    (Succeeded /\ Fn = "snapshot_project") =>
        /\ AllPresent
        /\ Root.metadata.instigating_source = Some(SourcePath(ProjectFilePath))
        /\ Root.metadata.relevant_paths =
                Append(InheritedRelevantPaths(<< >>), ProjectFilePath)
        /\ \A at \in Visited :
            (at # << >> /\ Present(at)) =>
                /\ SnapshotOf(at).metadata.instigating_source =
                        Some(SourceProjectNode(ProjectFilePath, NameOf(at),
                                DeclaredNode(at),
                                Some(SnapshotOf(ParentOf(at)).class_name)))
                /\ SnapshotOf(at).metadata.relevant_paths = InheritedRelevantPaths(at)

\* A root and a declared child, each with a $path that yields a snapshot
\* with a source of its own.
C8_Witness ==
    /\ Succeeded /\ Fn = "snapshot_project"
    /\ IsSome(PathResult(<< >>).value)
    /\ Root.metadata.instigating_source = Some(SourcePath(ProjectFilePath))
    /\ \E at \in Visited :
        /\ at # << >> /\ Present(at)
        /\ IsSome(PathResult(at).value)
        /\ Unwrap(SnapshotOf(at).metadata.instigating_source).tag = "ProjectNode"

-----------------------------------------------------------------------------
(* C9: fail-fast, all or nothing *)

\* The node at `at`, taken alone, has an error: the snapshotter fails on its
\* $path, its class name is a conflict, missing or an unresolved Required
\* path, or, its children resolved, one of its properties is unresolvable.
OwnError(at) ==
    \/ PathResult(at).kind = "Err"
    \/ /\ Matched(at)
       /\ TableResult(NameOf(at), Match(at).from_project, Match(at).from_path,
                      Match(at).from_inference, DeclaredNode(at).path).kind = "Err"
    \/ /\ ReachedProperties(at)
       /\ \E k \in DOMAIN DeclaredNode(at).properties :
            IsErr(resolve(DeclaredNode(at).properties[k],
                          Match(at).matched.class_name, k))

\* The node at `at` resolves to absence: an Optional $path that yields no
\* snapshot, and no other candidate.
OwnAbsence(at) == Unresolved(at, "Optional") /\ NoOtherCandidate(at)

IsPrefix(a, b) == Len(a) <= Len(b) /\ SubSeq(b, 1, Len(a)) = a

\* After the first failure nothing is done but returning it up the chain.
FailFast ==
    \A i \in DOMAIN Log :
        (Log[i].op = "return" /\ Log[i].arg = "Err") =>
            \A j \in DOMAIN Log :
                j > i => /\ Log[j].op = "return"
                         /\ Log[j].arg = "Err"
                         /\ IsPrefix(Log[j].at, Log[i].at)

C9_Witness ==
    /\ Succeeded /\ Fn = "snapshot_project"
    /\ \E at \in Visited, sibling \in Visited :
        /\ at # << >> /\ sibling # << >> /\ at # sibling
        /\ ParentOf(at) = ParentOf(sibling)
        /\ OwnAbsence(at) /\ Returned(at) = "None"
        /\ Present(sibling)

-----------------------------------------------------------------------------
(* C10: service inference *)

\* The inference as the table of service inference states it.
InferenceFor(name, parent_class) ==
    IF parent_class = Some("DataModel") /\ name \in ServiceClasses
    THEN Some(name)
    ELSE IF /\ parent_class = Some("StarterPlayer")
            /\ name \in {"StarterPlayerScripts", "StarterCharacterScripts"}
    THEN Some(name)
    ELSE None

\* The parent class the call for the node at `at` is to be given: that of the
\* entry point for the outermost node, else the class name its parent
\* resolved to.
FinalParentClass(at) ==
    IF at = << >> THEN Args.parent_class
    ELSE Some(Match(ParentOf(at)).matched.class_name)

\* C10: the inference for a node depends on its name and on the resolved
\* class of its parent alone: its own name when the parent is "DataModel" and
\* the name is a class tagged as a service, or the parent is "StarterPlayer"
\* and the name is "StarterPlayerScripts" or "StarterCharacterScripts"; else
\* nothing, and nothing for the root of a project.  The parent class of a
\* declared child is the class name its parent resolved to.
C10_ServiceInference ==
    /\ (Finished /\ Fn = "infer_class_name") =>
            Unwrap(result) = InferenceFor(Args.name, Args.parent_class)
    /\ Resolving =>
            /\ Fn = "snapshot_project" => Args.parent_class = None
            /\ \A at \in Visited :
                /\ GivenParentClass(at) = FinalParentClass(at)
                /\ Matched(at) =>
                    Match(at).from_inference =
                        InferenceFor(NameOf(at), FinalParentClass(at))
                /\ (at # << >> /\ Present(at)) =>
                    GivenParentClass(at) = Some(SnapshotOf(ParentOf(at)).class_name)

\* A child inferred under a parent whose class was itself inferred, over the
\* "Folder" of the parent's $path.
C10_Witness ==
    /\ Succeeded
    /\ \E at \in Visited :
        /\ at # << >> /\ Present(at)
        /\ Match(ParentOf(at)).from_path = Some("Folder")
        /\ Match(ParentOf(at)).from_project = None
        /\ SnapshotOf(ParentOf(at)).class_name = "StarterPlayer"
        /\ Match(at).from_inference = Some("StarterPlayerScripts")
        /\ SnapshotOf(at).class_name = "StarterPlayerScripts"

-----------------------------------------------------------------------------
(* C11: the order of the steps of one node *)

\* The place of an event in the steps of the node at `at`: entry, the
\* snapshotter, the class-name match, everything done for the declared
\* nodes below it, its declared properties, its return.
StepOf(at, event) ==
    IF event.at # at THEN 4
    ELSE IF event.op = "enter" THEN 1
    ELSE IF event.op = "snapshot_from_vfs" THEN 2
    ELSE IF event.op = "class_name" THEN 3
    ELSE IF event.op = "return" THEN 6
    ELSE 5

\* Where the trace has the event `op` of the node at `at`.
Pos(at, op) == CHOOSE i \in DOMAIN Log : Log[i].at = at /\ Log[i].op = op

\* The events of the node at `at` and of the declared nodes below it.
Span(at) == {i \in DOMAIN Log : IsPrefix(at, Log[i].at)}

\* The steps of the node at `at` run in their order, and one call after the
\* other: from its entry to its return nothing of another node is done.
StepsInOrder(at) ==
    LET first == Pos(at, "enter")
        last == Pos(at, "return")
    IN  /\ Span(at) = first..last
        /\ \A k \in first..(last - 1) :
            StepOf(at, Log[k]) <= StepOf(at, Log[k + 1])
        /\ HasEvent(at, "snapshot_from_vfs") <=> IsSome(DeclaredNode(at).path)

\* The declared children are resolved in the order of their declaration, each
\* with all below it before the next.
ChildrenInDeclarationOrder(at) ==
    LET entries == DeclaredNode(at).children
    IN  \A m, n \in DOMAIN entries :
            (m < n /\ HasEvent(at \o << entries[n].name >>, "enter")) =>
                /\ HasEvent(at \o << entries[m].name >>, "return")
                /\ Pos(at \o << entries[m].name >>, "return")
                        < Pos(at \o << entries[n].name >>, "enter")

\* The node at `at` stops before its declared children: the snapshotter
\* fails on its $path, or its class-name match is absence or an error.
StopsEarly(at) == ~Matched(at) \/ Match(at).matched.kind # "Class"

\* Nothing is done for the declared nodes below `at`, nor for its properties.
NothingBelow(at) ==
    /\ \A i \in Span(at) : Log[i].at = at /\ Log[i].op # "resolve"
    /\ \A below \in Declared :
        (IsPrefix(at, below) /\ below # at) => below \notin Visited

\* The error of the node at `at` taken alone, in the step that fails first.
ErrorAt(at) ==
    IF PathResult(at).kind = "Err" THEN PathResult(at).error
    ELSE IF Match(at).matched.kind = "Err" THEN Match(at).matched.error
    ELSE [type |-> "UnresolvableProperty", path |-> ProjectFilePath]

\* The node whose call is the first to return an error.
FirstFailure ==
    Log[CHOOSE i \in DOMAIN Log :
            /\ Log[i].op = "return" /\ Log[i].arg = "Err"
            /\ \A j \in 1..(i - 1) : ~(Log[j].op = "return" /\ Log[j].arg = "Err")].at

\* C11: within one node the steps run in the order snapshotter call,
\* class-name resolution, declared children (depth-first, in declaration
\* order), declared properties.  A node whose snapshotter fails, or whose
\* class name resolves to absence or to an error, stops there: no declared
\* node below it is resolved (no call, no snapshotter call, no error of
\* theirs), and none of its properties.  When a declared child fails, the
\* node resolves none of its own properties and returns the child's error,
\* so that the error of the whole call is that of the node that failed
\* first, the errors in the properties of the nodes above it notwithstanding.
C11_StepOrder ==
    Resolving =>
        /\ \A at \in Visited :
            /\ StepsInOrder(at)
            /\ ChildrenInDeclarationOrder(at)
            /\ StopsEarly(at) => NothingBelow(at)
            /\ (\E e \in Range(DeclaredNode(at).children) :
                    Returned(at \o << e.name >>) = "Err") =>
                    /\ ~HasEvent(at, "resolve")
                    /\ Returned(at) = "Err"
        /\ {Log[i].at : i \in DOMAIN Log} \subseteq Visited
        /\ Ret.kind = "Err" => Ret.error = ErrorAt(FirstFailure)

\* A node with a property that cannot be resolved and a declared child whose
\* class name is an error: the child's error is returned and the property
\* is never resolved.
C11_Witness ==
    /\ Resolving /\ Ret.kind = "Err"
    /\ DeclaredNode(<< >>).children # << >>
    /\ Matched(<< >>) /\ Match(<< >>).matched.kind = "Class"
    /\ \E k \in DOMAIN DeclaredNode(<< >>).properties :
            IsErr(resolve(DeclaredNode(<< >>).properties[k],
                          Match(<< >>).matched.class_name, k))
    /\ FirstFailure # << >>
    /\ Matched(FirstFailure) /\ Match(FirstFailure).matched.kind = "Err"
    /\ Ret.error = Match(FirstFailure).matched.error
    /\ ~HasEvent(<< >>, "resolve")

\* A node that resolves to absence with declared children: none of them is
\* resolved.
C11_WitnessAbsence ==
    /\ Resolving /\ Ret = Ok(None)
    /\ DeclaredNode(<< >>).children # << >>
    /\ Visited = {<< >>}

=============================================================================
